---- MODULE Spec2Model ----
(***************************************************************************)
(* The URL registry of src/src/services/urlService.ts (class UrlService)   *)
(* as a state machine.  Every public method is one atomic action (the      *)
(* environment is single-threaded); the clock `now` stands for new Date()  *)
(* / Date.now() in milliseconds and only moves forward.                    *)
(*                                                                         *)
(* Strings that the code inspects character by character (short codes) are *)
(* sequences of one-character strings; optional values (undefined or a     *)
(* value) are sequences of length 0 or 1.                                  *)
(***************************************************************************)
EXTENDS Integers, Sequences, FiniteSets, TLC

VARIABLES
    urls,      \* this.urls: the Map, as its entries' values in insertion order (key = value.id)
    storage,   \* localStorage[STORAGE_KEY]: <<>> when absent, else <<the item's text>>
    now,       \* the wall clock in ms
    ret,       \* the last public call: operation, arguments, outcome
    saveErrors, \* the writes that threw ('Failed to save to storage') since the last one that did not
    hits,      \* history: per stored id, the successful recordClickAndRedirect calls on it
    logged,    \* the messages the last public call passed to the logger, in order
    freed,     \* history: the short codes of the mappings deleteUrl removed
    gen,       \* one run of generateUniqueShortCode: its position and locals
    pending,   \* history: saveErrors before the last step
    page,      \* RedirectHandler: its state hooks, route parameter, interval and navigations
    shortener, \* UrlShortener: its state hooks (forms, results, errors, isLoading)
    logs       \* Logger.logs, newest first

vars == <<urls, storage, now, ret, saveErrors, hits, logged, freed, gen, pending,
          page, shortener, logs>>

\* ------------------------------------------------------------------ bounds
MaxUrls == 3        \* stored mappings
MaxClicks == 2      \* clicks recorded in the registry
MaxTicks == 2       \* clock steps
MaxRand == 1        \* distinct outcomes of Math.random() in generateShortCode
MaxIdRand == 1      \* distinct outcomes of Math.random() in an id
MaxSaveErrors == 1  \* localStorage.setItem calls that throw
MaxFailedWrites == 2  \* writes that throw in a row, in SpecRecover
MaxRecoverUrls == 2   \* stored mappings, in SpecRecover
MaxTimerTicks == 4    \* interval callbacks of one mounted RedirectHandler
MaxForms == 2         \* forms shown by UrlShortener
MaxSubmits == 2       \* calls of submitForm
MaxFormUrls == 2      \* stored mappings, in SpecForms
MaxLogCalls == 1003   \* log calls since the logger's list was last empty
MaxReroutes == 1      \* changes of the route parameter while RedirectHandler is mounted

\* --------------------------------------------------------------- constants
maxAttempts == 100
DefaultCodeLength == 6
FallbackCodeLength == 8
MaxCodeLength == 20
DefaultValidity == 30
FormLimit == 5
maxLogs == 1000
MsPerMinute == 60 * 1000
TickMs == MsPerMinute

\* line 15: the 62-character alphabet, in the code's order
characters ==
    << "A","B","C","D","E","F","G","H","I","J","K","L","M",
       "N","O","P","Q","R","S","T","U","V","W","X","Y","Z",
       "a","b","c","d","e","f","g","h","i","j","k","l","m",
       "n","o","p","q","r","s","t","u","v","w","x","y","z",
       "0","1","2","3","4","5","6","7","8","9" >>

Range(s) == { s[i] : i \in 1..Len(s) }

\* the class [A-Za-z0-9] of the regex on line 58
Alnum == Range(characters)

Rep(ch, n) == [i \in 1..n |-> ch]

\* ----------------------------------------------------------------- inputs
GoodUrl == "https://example.com/a"
BadUrl == "not-a-url"
UrlInputs == {GoodUrl, BadUrl}

Promo == <<"p","r","o","m","o","1">>

Req(url, validity, custom) ==
    [originalUrl |-> url, validityMinutes |-> validity, customShortCode |-> custom]

\* the create requests explored (<<>> is an absent field)
Requests ==
    { Req(GoodUrl, <<>>, <<>>),                               \* auto code, default validity
      Req(GoodUrl, <<-1>>, << <<>> >>),                       \* empty custom code, negative validity
      Req(GoodUrl, <<1>>, <<Promo>>),                         \* custom code, one minute
      Req(GoodUrl, <<0>>, <<Promo>>),                         \* custom code, zero validity
      Req(GoodUrl, <<>>, << <<"a", "-">> >>),                 \* a non-alphanumeric character
      Req(GoodUrl, <<>>, <<Rep("z", MaxCodeLength + 1)>>),    \* too long
      Req(BadUrl, <<>>, <<Promo>>),
      Req(BadUrl, <<>>, << <<"a", "-">> >>) }

\* recordClickAndRedirect(code) and recordClickAndRedirect(code, 'direct'), the
\* call RedirectHandler makes
SourceInputs == {<<>>, <<"direct">>}
IdRands == 1..MaxIdRand

NoRequest == [originalUrl |-> "", validityMinutes |-> <<>>, customShortCode |-> <<>>]
NoId == <<-1, 0>>

\* ---------------------------------------------------------------- helpers
\* lines 14-21: one character per Math.random() outcome r[i] (0-based index)
generateShortCode(length, r) == [i \in 1..length |-> characters[r[i] + 1]]

\* the random streams explored: Math.random() repeats one of MaxRand outcomes
RandomStreams(length) == { [i \in 1..length |-> k] : k \in 0..(MaxRand - 1) }

Draws(length) == { generateShortCode(length, r) : r \in RandomStreams(length) }

\* mutant: no code is ever taken
isShortCodeTaken_Never(u, shortCode) == FALSE

\* mutant: only mappings not yet flagged expired count as holding a code
isShortCodeTaken_LiveOnly(u, shortCode) ==
    \E i \in 1..Len(u) : u[i].shortCode = shortCode /\ ~u[i].isExpired

\* lines 24-26
isShortCodeTaken(u, shortCode) == \E i \in 1..Len(u) : u[i].shortCode = shortCode

\* lines 29-44: the outcomes of the do-while, each with the number of passes
\* through its body.  Pass a <= maxAttempts returns its 6-character draw when
\* that draw is free and passes 1..a-1 all drew taken codes; pass
\* maxAttempts + 1 (reached when maxAttempts draws were all taken) discards
\* its 6-character draw and returns an 8-character draw without testing it.
generateUniqueShortCode(u) ==
    LET six == Draws(DefaultCodeLength)
        free == { c \in six : ~isShortCodeTaken(u, c) }
        taken == six \ free
        early == IF taken = {} THEN {1} ELSE 1..maxAttempts
    IN { [shortCode |-> c, attempts |-> a] : c \in free, a \in early }
       \cup { [shortCode |-> c, attempts |-> maxAttempts + 1] :
                c \in IF taken = {} THEN {} ELSE Draws(FallbackCodeLength) }

\* lines 47-54: new URL(url) accepts an absolute URL
isValidUrl(url) == url \in {GoodUrl}

\* lines 57-60
isValidShortCode(shortCode) ==
    /\ Len(shortCode) >= 1
    /\ Len(shortCode) <= MaxCodeLength
    /\ Range(shortCode) \subseteq Alnum

\* JavaScript truthiness of an optional string / number
TruthyStr(o) == Len(o) = 1 /\ Len(o[1]) > 0
TruthyNum(o) == Len(o) = 1 /\ o[1] # 0

\* Map.has / Map.set / Map.delete on the insertion-ordered entries
MapHas(u, id) == \E i \in 1..Len(u) : u[i].id = id
MapSet(u, id, v) ==
    IF MapHas(u, id) THEN [i \in 1..Len(u) |-> IF u[i].id = id THEN v ELSE u[i]]
    ELSE Append(u, v)
\* mutant: the entries inserted after the deleted one go with it
MapDelete_DropsLater(u, id) ==
    IF \E i \in 1..Len(u) : u[i].id = id
    THEN SubSeq(u, 1, (CHOOSE i \in 1..Len(u) : u[i].id = id) - 1)
    ELSE u
MapDelete(u, id) == SelectSeq(u, LAMBDA m : m.id # id)

\* mutant: the snapshot leaves out the click histories
Entries_WithoutClicks(u) == [i \in 1..Len(u) |-> <<u[i].id, [u[i] EXCEPT !.clicks = <<>>]>>]

\* line 208: Array.from(this.urls.entries())
Entries(u) == [i \in 1..Len(u) |-> <<u[i].id, u[i]>>]

\* A stored text, by what JSON.parse makes of it: kind "array" is the text of
\* an array whose elements are arrays, entries holding their first two
\* elements; the other kinds are listed with loadFromStorage.
Text(kind, entries) == [kind |-> kind, entries |-> entries]

\* line 209: JSON.stringify of an array of [key, value] pairs.  Strings,
\* numbers, booleans and arrays come back from JSON.parse as they went in; a
\* property whose value is undefined (customCode of a generated code) is left
\* out of the text and reads as undefined afterwards: a missing property and
\* an undefined one are both the value <<>> here, and the code only tests
\* customCode for truthiness.
JsonStringify(entries) == Text("array", entries)

\* lines 206-213: the snapshot written when setItem succeeds
saveToStorage(u, st, ok) == IF ok THEN <<JsonStringify(Entries(u))>> ELSE st

\* mutant: after a write that threw, the next write is skipped
Persist_SkipsAfterFailure(u, called, ok) ==
    /\ storage' = IF called /\ saveErrors = 0 THEN saveToStorage(u, storage, ok) ELSE storage
    /\ saveErrors' = IF called THEN (IF ok THEN 0 ELSE saveErrors + 1) ELSE saveErrors

\* the effect of a method that calls saveToStorage (called) or does not; a
\* setItem that throws is caught and logged (lines 210-212)
Persist(u, called, ok) ==
    /\ storage' = IF called THEN saveToStorage(u, storage, ok) ELSE storage
    /\ saveErrors' = IF called THEN (IF ok THEN 0 ELSE saveErrors + 1) ELSE saveErrors

\* line 211: what saveToStorage logs
SaveLog(called, ok) == IF called /\ ~ok THEN <<"Failed to save to storage">> ELSE <<>>

\* the outcomes of setItem explored for one call: O is {TRUE} when the store
\* accepts every write, BOOLEAN when a write can throw (at most MaxSaveErrors
\* times in a row)
SaveOutcomes(O) == IF saveErrors < MaxSaveErrors THEN O ELSE {TRUE}

Ids(u) == { u[i].id : i \in 1..Len(u) }

Ret(op, req, code, id, status, out, url) ==
    [op |-> op, req |-> req, code |-> code, id |-> id,
     status |-> status, out |-> out, url |-> url]

\* the locals of generateUniqueShortCode (lines 30-31) with its position: six
\* counts the calls of generateShortCode(), collided the draws that line 41
\* found taken
Run(pc, shortCode, attempts, six, collided) ==
    [pc |-> pc, shortCode |-> shortCode, attempts |-> attempts, six |-> six,
     collided |-> collided]
NoRun == Run("idle", <<>>, 0, 0, 0)

\* the components while they are not rendered; the registry's specifications
\* leave them and the logger's list alone (what a call logs is in logged)
\* RedirectHandler: its route parameter and state hooks (lines 10-13), the
\* interval of line 45 with the constants of its closure (timer), the value
\* assigned to window.location.href, and as history the runs of the effect
\* (runs), the interval callbacks since the mount (ticks) and since the
\* running interval was set (fired), and the assignments made by line 49 (autos)
Page(mounted, shortCode, status, originalUrl, countdown, timer, href) ==
    [mounted |-> mounted, shortCode |-> shortCode, status |-> status,
     originalUrl |-> originalUrl, countdown |-> countdown, timer |-> timer,
     href |-> href, runs |-> 0, ticks |-> 0, fired |-> 0, autos |-> 0]
NoPage == Page("unmounted", <<>>, "loading", "", 3, <<>>, <<>>)
\* UrlShortener: its state hooks (part_003 lines 16-21); errors and isLoading
\* are the objects keyed by form index; results holds the ids of the mappings
\* returned; submits counts the calls of submitForm and last is the index of
\* the latest (history)
Shortener(mounted, forms, results, errors, isLoading) ==
    [mounted |-> mounted, forms |-> forms, results |-> results, errors |-> errors,
     isLoading |-> isLoading, submits |-> 0, last |-> 0]
NoShortener == Shortener(FALSE, <<>>, <<>>, <<>>, <<>>)

\* ------------------------------------------------------------------- Init
Init ==
    /\ urls = <<>>
    /\ storage = <<>>
    /\ now = 0
    /\ ret = Ret("init", NoRequest, <<>>, NoId, "ok", <<>>, "")
    /\ hits = <<>>
    /\ saveErrors = 0
    /\ logged = <<"UrlService initialized">>
    /\ freed = {}
    /\ pending = 0
    /\ page = NoPage
    /\ shortener = NoShortener
    /\ logs = <<>>
    /\ gen = NoRun

\* ---------------------------------------------------------------- actions
Tick ==
    /\ now < MaxTicks * TickMs
    /\ now' = now + TickMs
    /\ UNCHANGED <<urls, storage, ret, saveErrors, hits, logged>>

\* lines 91-94
ExpiresAt(req, t) ==
    LET validityMinutes == IF TruthyNum(req.validityMinutes)
                           THEN req.validityMinutes[1] ELSE DefaultValidity
    IN t + validityMinutes * MsPerMinute

\* lines 96-107
NewUrl(req, shortCode, t, r) ==
    [id |-> <<t, r>>,
     originalUrl |-> req.originalUrl,
     shortCode |-> shortCode,
     customCode |-> req.customShortCode,
     createdAt |-> t,
     expiresAt |-> ExpiresAt(req, t),
     isExpired |-> FALSE,
     clicks |-> <<>>,
     totalClicks |-> 0]

\* lines 69, 78, 83: the message logged with each refusal
FailureLog(status) ==
    CASE status = "InvalidUrl" -> "URL validation failed"
      [] status = "InvalidShortCode" -> "Short code validation failed"
      [] status = "ShortCodeTaken" -> "Short code collision"

\* mutant: a refused request rewrites the snapshot
CreateFail_Saves(req, status) ==
    /\ ret' = Ret("create", req, <<>>, NoId, status, <<>>, "")
    /\ logged' = <<"Creating shortened URL", FailureLog(status)>>
    /\ Persist(urls, TRUE, TRUE)
    /\ UNCHANGED <<urls, now, hits>>

\* lines 67-71, 77-86: the request is refused with a thrown Error
CreateFail(req, status) ==
    /\ ret' = Ret("create", req, <<>>, NoId, status, <<>>, "")
    /\ logged' = <<"Creating shortened URL", FailureLog(status)>>
    /\ UNCHANGED <<urls, storage, now, saveErrors, hits>>

CreateStore(req, shortCode, r, ok) ==
    LET m == NewUrl(req, shortCode, now, r) IN
    /\ MapHas(urls, m.id) \/ Len(urls) < MaxUrls
    /\ urls' = MapSet(urls, m.id, m)
    /\ Persist(urls', TRUE, ok)
    /\ hits' = MapSet(hits, m.id, [id |-> m.id, n |-> 0])
    /\ ret' = Ret("create", req, shortCode, m.id, "ok", <<m>>, "")
    /\ logged' = <<"Creating shortened URL">> \o SaveLog(TRUE, ok)
                  \o <<"Shortened URL created successfully">>
    /\ UNCHANGED now

\* mutant: a custom code is taken only while a mapping holding it has not expired
createShortenedUrl_ExpiryFrees(req, r, ok) ==
    IF ~isValidUrl(req.originalUrl) THEN CreateFail(req, "InvalidUrl")
    ELSE IF TruthyStr(req.customShortCode)
    THEN IF ~isValidShortCode(req.customShortCode[1]) THEN CreateFail(req, "InvalidShortCode")
         ELSE IF \E i \in 1..Len(urls) :
                     urls[i].shortCode = req.customShortCode[1] /\ now <= urls[i].expiresAt
         THEN CreateFail(req, "ShortCodeTaken")
         ELSE CreateStore(req, req.customShortCode[1], r, ok)
    ELSE \E shortCode \in { g.shortCode : g \in generateUniqueShortCode(urls) } :
            CreateStore(req, shortCode, r, ok)

\* mutant: the validated custom code is dropped and a code is generated
createShortenedUrl_AutoOnly(req, r, ok) ==
    IF ~isValidUrl(req.originalUrl) THEN CreateFail(req, "InvalidUrl")
    ELSE IF TruthyStr(req.customShortCode) /\ ~isValidShortCode(req.customShortCode[1])
    THEN CreateFail(req, "InvalidShortCode")
    ELSE IF TruthyStr(req.customShortCode) /\ isShortCodeTaken(urls, req.customShortCode[1])
    THEN CreateFail(req, "ShortCodeTaken")
    ELSE \E shortCode \in { g.shortCode : g \in generateUniqueShortCode(urls) } :
            CreateStore(req, shortCode, r, ok)

\* lines 63-119
createShortenedUrl(req, r, ok) ==
    IF ~isValidUrl(req.originalUrl) THEN CreateFail(req, "InvalidUrl")
    ELSE IF TruthyStr(req.customShortCode)
    THEN IF ~isValidShortCode(req.customShortCode[1]) THEN CreateFail(req, "InvalidShortCode")
         ELSE IF isShortCodeTaken(urls, req.customShortCode[1]) THEN CreateFail(req, "ShortCodeTaken")
         ELSE CreateStore(req, req.customShortCode[1], r, ok)
    ELSE \E shortCode \in { g.shortCode : g \in generateUniqueShortCode(urls) } :
            CreateStore(req, shortCode, r, ok)

\* the first entry holding shortCode (Array.prototype.find), 0 when none
FindByCode(u, shortCode) ==
    LET S == { i \in 1..Len(u) : u[i].shortCode = shortCode }
    IN IF S = {} THEN 0 ELSE CHOOSE i \in S : \A j \in S : i <= j

\* mutant: a mapping counts as expired from expiresAt on
Expired_Inclusive(url, t) == t >= url.expiresAt

\* lines 130, 186: new Date() > new Date(url.expiresAt)
Expired(url, t) == t > url.expiresAt

\* mutant: the flag is set and the snapshot is not rewritten
getUrlByShortCode_MarkUnsaved(u, t, shortCode) ==
    LET i == FindByCode(u, shortCode) IN
    IF i = 0
    THEN [urls |-> u, found |-> 0, save |-> FALSE, warn |-> <<"Short code not found">>]
    ELSE IF Expired(u[i], t)
    THEN [urls |-> [u EXCEPT ![i].isExpired = TRUE], found |-> 0, save |-> FALSE,
          warn |-> <<"Attempted to access expired URL">>]
    ELSE [urls |-> u, found |-> i, save |-> FALSE, warn |-> <<>>]

\* mutant: the expiry check is skipped
getUrlByShortCode_NoExpiry(u, t, shortCode) ==
    [urls |-> u, found |-> FindByCode(u, shortCode), save |-> FALSE,
     warn |-> IF FindByCode(u, shortCode) = 0 THEN <<"Short code not found">> ELSE <<>>]

\* mutant: the snapshot is rewritten after every lookup
getUrlByShortCode_SavesAlways(u, t, shortCode) ==
    LET i == FindByCode(u, shortCode) IN
    IF i = 0
    THEN [urls |-> u, found |-> 0, save |-> TRUE, warn |-> <<"Short code not found">>]
    ELSE IF Expired(u[i], t)
    THEN [urls |-> [u EXCEPT ![i].isExpired = TRUE], found |-> 0, save |-> TRUE,
          warn |-> <<"Attempted to access expired URL">>]
    ELSE [urls |-> u, found |-> i, save |-> TRUE, warn |-> <<>>]

\* lines 122-138: the Map afterwards, the index of the url returned (0 for
\* null), whether saveToStorage was called and the warning logged
getUrlByShortCode(u, t, shortCode) ==
    LET i == FindByCode(u, shortCode) IN
    IF i = 0
    THEN [urls |-> u, found |-> 0, save |-> FALSE, warn |-> <<"Short code not found">>]
    ELSE IF Expired(u[i], t)
    THEN [urls |-> [u EXCEPT ![i].isExpired = TRUE], found |-> 0, save |-> TRUE,
          warn |-> <<"Attempted to access expired URL">>]
    ELSE [urls |-> u, found |-> i, save |-> FALSE, warn |-> <<>>]

Lookup(shortCode, ok) ==
    LET e == getUrlByShortCode(urls, now, shortCode) IN
    /\ urls' = e.urls
    /\ Persist(e.urls, e.save, ok)
    /\ logged' = SaveLog(e.save, ok) \o e.warn
    /\ ret' = IF e.found = 0
              THEN Ret("lookup", NoRequest, shortCode, NoId, "NotFound", <<>>, "")
              ELSE Ret("lookup", NoRequest, shortCode, urls[e.found].id, "ok",
                       <<urls[e.found]>>, "")
    /\ UNCHANGED <<now, hits>>

\* lines 171-178
getLocationData == [country |-> "Unknown", region |-> "Unknown", city |-> "Unknown"]

\* lines 148-154
NewClick(source, t, r) ==
    [id |-> <<t, r>>,
     timestamp |-> t,
     source |-> IF source = <<>> THEN "direct" ELSE source[1],
     location |-> getLocationData.country,
     userAgent |-> "navigator.userAgent"]

\* mutant: unshift instead of push
PushClick_Prepend(url, click) ==
    LET clicks == <<click>> \o url.clicks
    IN [url EXCEPT !.clicks = clicks, !.totalClicks = Len(clicks)]

\* mutant: totalClicks read before the push
PushClick_StaleTotal(url, click) ==
    [url EXCEPT !.clicks = Append(url.clicks, click), !.totalClicks = Len(url.clicks)]

\* lines 156-157
PushClick(url, click) ==
    LET clicks == Append(url.clicks, click)
    IN [url EXCEPT !.clicks = clicks, !.totalClicks = Len(clicks)]

RECURSIVE TotalClicks(_)
TotalClicks(u) == IF u = <<>> THEN 0 ELSE Len(Head(u).clicks) + TotalClicks(Tail(u))

Bump(h, id) == [i \in 1..Len(h) |-> IF h[i].id = id THEN [h[i] EXCEPT !.n = @ + 1] ELSE h[i]]

\* lines 141-168
recordClickAndRedirect(shortCode, source, r, ok) ==
    LET e == getUrlByShortCode(urls, now, shortCode) IN
    IF e.found = 0
    THEN /\ urls' = e.urls
         /\ Persist(e.urls, e.save, ok)
         /\ logged' = SaveLog(e.save, ok) \o e.warn
         /\ ret' = Ret("record", NoRequest, shortCode, NoId, "NotFound", <<>>, "")
         /\ UNCHANGED <<now, hits>>
    ELSE LET i == e.found
             url == PushClick(e.urls[i], NewClick(source, now, r))
         IN /\ TotalClicks(urls) < MaxClicks
            /\ urls' = [e.urls EXCEPT ![i] = url]
            /\ Persist(urls', TRUE, ok)
            /\ hits' = Bump(hits, url.id)
            /\ logged' = SaveLog(TRUE, ok) \o <<"Click recorded">>
            /\ ret' = Ret("record", NoRequest, shortCode, url.id, "ok", <<url>>,
                          url.originalUrl)
            /\ UNCHANGED now

\* mutant: (a, b) => a.createdAt - b.createdAt
SortByCreatedAtDesc_Ascending(s) ==
    LET Before(j, i) == \/ s[j].createdAt < s[i].createdAt
                        \/ s[j].createdAt = s[i].createdAt /\ j < i
        Pos(i) == 1 + Cardinality({ j \in 1..Len(s) : Before(j, i) })
    IN [k \in 1..Len(s) |-> s[CHOOSE i \in 1..Len(s) : Pos(i) = k]]

\* line 192: Array.prototype.sort (stable) with (a, b) => b.createdAt - a.createdAt
SortByCreatedAtDesc(s) ==
    LET Before(j, i) == \/ s[j].createdAt > s[i].createdAt
                        \/ s[j].createdAt = s[i].createdAt /\ j < i
        Pos(i) == 1 + Cardinality({ j \in 1..Len(s) : Before(j, i) })
    IN [k \in 1..Len(s) |-> s[CHOOSE i \in 1..Len(s) : Pos(i) = k]]

\* lines 185-189
RefreshExpired(u, t) ==
    [i \in 1..Len(u) |-> IF Expired(u[i], t) THEN [u[i] EXCEPT !.isExpired = TRUE] ELSE u[i]]

\* lines 181-193
getAllUrls(ok) ==
    /\ urls' = RefreshExpired(urls, now)
    /\ Persist(urls', TRUE, ok)
    /\ logged' = SaveLog(TRUE, ok)
    /\ ret' = Ret("list", NoRequest, <<>>, NoId, "ok", SortByCreatedAtDesc(urls'), "")
    /\ UNCHANGED <<now, hits>>

\* lines 196-203
deleteUrl(id, ok) ==
    LET deleted == MapHas(urls, id) IN
    /\ urls' = MapDelete(urls, id)
    /\ Persist(urls', deleted, ok)
    /\ hits' = MapDelete(hits, id)
    /\ logged' = IF deleted THEN SaveLog(TRUE, ok) \o <<"URL deleted">> ELSE <<>>
    /\ ret' = Ret("delete", NoRequest, <<>>, id, IF deleted THEN "true" ELSE "false", <<>>, "")
    /\ UNCHANGED now

\* mutant: the Map is emptied and the stored item is left in place
clearAllData_KeepsSnapshot(ok) ==
    /\ urls' = <<>>
    /\ UNCHANGED <<storage, saveErrors, now>>
    /\ hits' = <<>>
    /\ logged' = <<"All data cleared">>
    /\ ret' = Ret("clear", NoRequest, <<>>, NoId, "ok", <<>>, "")

\* lines 230-234: removeItem is called outside any try, so when the store
\* throws, the exception leaves clearAllData after this.urls.clear()
clearAllData(ok) ==
    /\ urls' = <<>>
    /\ storage' = IF ok THEN <<>> ELSE storage
    /\ saveErrors' = IF ok THEN 0 ELSE saveErrors + 1
    /\ hits' = <<>>
    /\ logged' = IF ok THEN <<"All data cleared">> ELSE <<>>
    /\ ret' = Ret("clear", NoRequest, <<>>, NoId, IF ok THEN "ok" ELSE "Threw", <<>>, "")
    /\ UNCHANGED now

\* the arguments explored: every stored code or id, and one that is not stored
Missing == <<"n","o","n","e">>
CodeArgs == { urls[i].shortCode : i \in 1..Len(urls) } \cup {Missing}
IdArgs == Ids(urls) \cup {NoId}

Create(O) ==
    \E req \in Requests, r \in IdRands, ok \in SaveOutcomes(O) : createShortenedUrl(req, r, ok)
GetByCode(O) == \E c \in CodeArgs, ok \in SaveOutcomes(O) : Lookup(c, ok)
RecordClick(O) ==
    \E c \in CodeArgs, src \in SourceInputs, r \in IdRands, ok \in SaveOutcomes(O) :
        recordClickAndRedirect(c, src, r, ok)
GetAll(O) == \E ok \in SaveOutcomes(O) : getAllUrls(ok)
Delete(O) == \E id \in IdArgs, ok \in SaveOutcomes(O) : deleteUrl(id, ok)
Clear(O) == \E ok \in SaveOutcomes(O) : clearAllData(ok)

\* the registry over a store that accepts every write
Next ==
    \/ Tick /\ UNCHANGED <<freed, gen, pending, page, shortener, logs>>
    \/ Create({TRUE}) /\ UNCHANGED <<freed, gen, pending, page, shortener, logs>>
    \/ GetByCode({TRUE}) /\ UNCHANGED <<freed, gen, pending, page, shortener, logs>>
    \/ RecordClick({TRUE}) /\ UNCHANGED <<freed, gen, pending, page, shortener, logs>>
    \/ GetAll({TRUE}) /\ UNCHANGED <<freed, gen, pending, page, shortener, logs>>
    \/ Delete({TRUE}) /\ UNCHANGED <<freed, gen, pending, page, shortener, logs>>
    \/ Clear({TRUE}) /\ UNCHANGED <<freed, gen, pending, page, shortener, logs>>

Spec == Init /\ [][Next]_vars

\* the registry over a store whose writes can throw
NextSaveFail ==
    \/ Tick /\ UNCHANGED <<freed, gen, pending, page, shortener, logs>>
    \/ Create(BOOLEAN) /\ UNCHANGED <<freed, gen, pending, page, shortener, logs>>
    \/ GetByCode(BOOLEAN) /\ UNCHANGED <<freed, gen, pending, page, shortener, logs>>
    \/ RecordClick(BOOLEAN) /\ UNCHANGED <<freed, gen, pending, page, shortener, logs>>
    \/ GetAll(BOOLEAN) /\ UNCHANGED <<freed, gen, pending, page, shortener, logs>>
    \/ Delete(BOOLEAN) /\ UNCHANGED <<freed, gen, pending, page, shortener, logs>>
    \/ Clear(BOOLEAN) /\ UNCHANGED <<freed, gen, pending, page, shortener, logs>>

SpecSaveFail == Init /\ [][NextSaveFail]_vars

\* new Map(entries): a key that comes again replaces the value at the key's
\* first position
FromEntries(entries) ==
    LET n == Len(entries)
        First(i) == \A j \in 1..(i - 1) : entries[j][1] # entries[i][1]
        Last(i) == CHOOSE j \in i..n :
                       /\ entries[j][1] = entries[i][1]
                       /\ \A k \in (j + 1)..n : entries[k][1] # entries[i][1]
        RECURSIVE From(_)
        From(i) == IF i > n THEN <<>>
                   ELSE IF First(i) THEN <<entries[Last(i)][2]>> \o From(i + 1)
                   ELSE From(i + 1)
    IN From(1)

\* lines 216-227, on the Map the field initialiser left empty (line 5).  The
\* kinds of stored text:
\*   "unreadable"  getItem throws, caught on line 224
\*   "empty"       the empty string, falsy on line 219
\*   "text"        not JSON: JSON.parse throws
\*   "number"      JSON that is not iterable: new Map throws
\*   "strings"     an array whose elements are not objects: new Map throws
\*   "null"        new Map(null) is an empty Map
\*   "array"       an array of arrays: new Map takes [0] as key and [1] as value
loadFromStorage(st) ==
    IF st = <<>> THEN <<>>
    ELSE IF st[1].kind = "array" THEN FromEntries(st[1].entries)
    ELSE <<>>

\* lines 222, 225: what loadFromStorage logs
LoadLog(st) ==
    IF st = <<>> \/ st[1].kind = "empty" THEN <<>>
    ELSE IF st[1].kind \in {"array", "null"} THEN <<"Data loaded from storage">>
    ELSE <<"Failed to load from storage">>

\* a value that has the fields of a ShortenedUrl
UrlFields ==
    {"id", "originalUrl", "shortCode", "customCode", "createdAt", "expiresAt",
     "isExpired", "clicks", "totalClicks"}
IsShortenedUrl(v) == DOMAIN v = UrlFields

\* the stored items a page load can find: none, the kinds that make
\* loadFromStorage throw or skip, '[]', '[["k",{"originalUrl":...}]]' (pairs
\* whose value is no ShortenedUrl) and the snapshot of one mapping written a
\* minute before
Junk == [originalUrl |-> GoodUrl]
Earlier == NewUrl(Req(GoodUrl, <<1>>, <<Promo>>), Promo, 0 - TickMs, 1)
SnapshotInputs ==
    { <<>>,
      <<Text("unreadable", <<>>)>>,
      <<Text("empty", <<>>)>>,
      <<Text("text", <<>>)>>,
      <<Text("number", <<>>)>>,
      <<Text("strings", <<>>)>>,
      <<Text("null", <<>>)>>,
      <<Text("array", <<>>)>>,
      <<Text("array", << <<NoId, Junk>> >>)>>,
      <<JsonStringify(Entries(<<Earlier>>))>> }

\* the module is loaded: the field initialisers have run, the constructor has not
InitStartup ==
    /\ urls = <<>>
    /\ storage \in SnapshotInputs
    /\ now = 0
    /\ ret = Ret("load", NoRequest, <<>>, NoId, "", <<>>, "")
    /\ hits = <<>>
    /\ saveErrors = 0
    /\ logged = <<>>
    /\ freed = {}
    /\ pending = 0
    /\ page = NoPage
    /\ shortener = NoShortener
    /\ logs = <<>>
    /\ gen = NoRun

\* lines 8-11: new UrlService()
Construct ==
    /\ ret.op = "load"
    /\ urls' = loadFromStorage(storage)
    /\ hits' = [i \in 1..Len(urls') |->
                  IF IsShortenedUrl(urls'[i])
                  THEN [id |-> urls'[i].id, n |-> urls'[i].totalClicks]
                  ELSE [id |-> NoId, n |-> 0]]
    /\ ret' = Ret("init", NoRequest, <<>>, NoId, "ok", <<>>, "")
    /\ logged' = LoadLog(storage) \o <<"UrlService initialized">>
    /\ UNCHANGED <<storage, now, saveErrors>>

\* the methods are called on the constructed service; what they do with values
\* that are no ShortenedUrl is not modelled
Started == ret.op # "load" /\ \A i \in 1..Len(urls) : IsShortenedUrl(urls[i])

\* the registry from the page load on, over a store that accepts every write
NextStartup ==
    \/ Construct /\ UNCHANGED <<freed, gen, pending, page, shortener, logs>>
    \/ Started /\ Tick /\ UNCHANGED <<freed, gen, pending, page, shortener, logs>>
    \/ Started /\ Create({TRUE}) /\ UNCHANGED <<freed, gen, pending, page, shortener, logs>>
    \/ Started /\ GetByCode({TRUE}) /\ UNCHANGED <<freed, gen, pending, page, shortener, logs>>
    \/ Started /\ RecordClick({TRUE}) /\ UNCHANGED <<freed, gen, pending, page, shortener, logs>>
    \/ Started /\ GetAll({TRUE}) /\ UNCHANGED <<freed, gen, pending, page, shortener, logs>>
    \/ Started /\ Delete({TRUE}) /\ UNCHANGED <<freed, gen, pending, page, shortener, logs>>
    \/ Started /\ Clear({TRUE}) /\ UNCHANGED <<freed, gen, pending, page, shortener, logs>>

SpecStartup == InitStartup /\ [][NextStartup]_vars

\* ----------------------------------------- generateUniqueShortCode, pass by pass
\* the registries the loop is run on: one for every set of codes that the
\* draws can give
DrawnCodes == Draws(DefaultCodeLength) \cup Draws(FallbackCodeLength)
SeqOf(S) == CHOOSE q \in [1..Cardinality(S) -> S] : Range(q) = S
Holding(S) ==
    [i \in 1..Cardinality(S) |-> NewUrl(Req(GoodUrl, <<>>, <<>>), SeqOf(S)[i], 0, i)]

InitGenerate ==
    /\ urls \in { Holding(S) : S \in SUBSET DrawnCodes }
    /\ storage = <<JsonStringify(Entries(urls))>>
    /\ now = 0
    /\ ret = Ret("init", NoRequest, <<>>, NoId, "ok", <<>>, "")
    /\ hits = [i \in 1..Len(urls) |-> [id |-> urls[i].id, n |-> 0]]
    /\ saveErrors = 0
    /\ logged = <<"Data loaded from storage", "UrlService initialized">>
    /\ freed = {}
    /\ pending = 0
    /\ page = NoPage
    /\ shortener = NoShortener
    /\ logs = <<>>
    /\ gen = Run("loop", <<>>, 0, 0, 0)

Registry == <<urls, storage, now, ret, saveErrors, hits, logged, freed, pending,
              page, shortener, logs>>

\* mutant: the loop gives up one pass earlier
GenFallback_Early(c6, c8) ==
    /\ gen.pc = "loop"
    /\ gen.attempts + 1 >= maxAttempts
    /\ gen' = Run("done", c8, gen.attempts + 1, gen.six + 1, gen.collided)
    /\ UNCHANGED Registry

\* lines 35-39: the pass on which attempts exceeds maxAttempts draws six
\* characters, then eight, and leaves the loop
GenFallback(c6, c8) ==
    /\ gen.pc = "loop"
    /\ gen.attempts + 1 > maxAttempts
    /\ gen' = Run("done", c8, gen.attempts + 1, gen.six + 1, gen.collided)
    /\ UNCHANGED Registry

\* mutant: attempts++ is missing
GenCollide_NoCount(c6) ==
    /\ gen.pc = "loop"
    /\ isShortCodeTaken(urls, c6)
    /\ gen' = [gen EXCEPT !.shortCode = c6]
    /\ UNCHANGED Registry

\* lines 35-41: a draw that is taken, the loop goes on
GenCollide(c6) ==
    /\ gen.pc = "loop"
    /\ gen.attempts + 1 <= maxAttempts
    /\ isShortCodeTaken(urls, c6)
    /\ gen' = Run("loop", c6, gen.attempts + 1, gen.six + 1, gen.collided + 1)
    /\ UNCHANGED Registry

\* lines 35-43: a draw that is not taken is returned
GenReturn(c6) ==
    /\ gen.pc = "loop"
    /\ gen.attempts + 1 <= maxAttempts
    /\ ~isShortCodeTaken(urls, c6)
    /\ gen' = Run("done", c6, gen.attempts + 1, gen.six + 1, gen.collided)
    /\ UNCHANGED Registry

NextGenerate ==
    \/ \E c6 \in Draws(DefaultCodeLength), c8 \in Draws(FallbackCodeLength) : GenFallback(c6, c8)
    \/ \E c6 \in Draws(DefaultCodeLength) : GenCollide(c6)
    \/ \E c6 \in Draws(DefaultCodeLength) : GenReturn(c6)

\* the loop keeps running: a pass that can be made is made
SpecGenerate == InitGenerate /\ [][NextGenerate]_vars /\ WF_vars(NextGenerate)

\* ------------------------------------------ a store that fails repeatedly
\* the registry over a store whose writes can throw MaxFailedWrites times in
\* a row; pending remembers how many had thrown before each step
RecoverOutcomes == IF saveErrors < MaxFailedWrites THEN BOOLEAN ELSE {TRUE}
RecoverRequests == {Req(GoodUrl, <<>>, <<>>), Req(GoodUrl, <<1>>, <<Promo>>)}

RecoverCreate ==
    /\ \E req \in RecoverRequests, r \in IdRands, ok \in RecoverOutcomes :
          createShortenedUrl(req, r, ok)
    /\ Len(urls') <= MaxRecoverUrls
RecoverGetByCode == \E c \in CodeArgs, ok \in RecoverOutcomes : Lookup(c, ok)
RecoverRecordClick ==
    \E c \in CodeArgs, r \in IdRands, ok \in RecoverOutcomes :
        recordClickAndRedirect(c, <<"direct">>, r, ok)
RecoverGetAll == \E ok \in RecoverOutcomes : getAllUrls(ok)
RecoverDelete == \E id \in IdArgs, ok \in RecoverOutcomes : deleteUrl(id, ok)
RecoverClear == \E ok \in RecoverOutcomes : clearAllData(ok)

NextRecover ==
    \/ Tick /\ pending' = saveErrors /\ UNCHANGED <<freed, gen, page, shortener, logs>>
    \/ RecoverCreate /\ pending' = saveErrors /\ UNCHANGED <<freed, gen, page, shortener, logs>>
    \/ RecoverGetByCode /\ pending' = saveErrors /\ UNCHANGED <<freed, gen, page, shortener, logs>>
    \/ RecoverRecordClick /\ pending' = saveErrors /\ UNCHANGED <<freed, gen, page, shortener, logs>>
    \/ RecoverGetAll /\ pending' = saveErrors /\ UNCHANGED <<freed, gen, page, shortener, logs>>
    \/ RecoverDelete /\ pending' = saveErrors /\ UNCHANGED <<freed, gen, page, shortener, logs>>
    \/ RecoverClear /\ pending' = saveErrors /\ UNCHANGED <<freed, gen, page, shortener, logs>>

SpecRecover == Init /\ [][NextRecover]_vars

\* ------------------------------------------------------- RedirectHandler
\* src/src/components/RedirectHandler.tsx.  The route shows one page, so the
\* registry is called by other components only before the handler is mounted.
RouteParams == {<<>>} \cup { <<c>> : c \in CodeArgs }

\* lines 15-57: one run of the effect for the route parameter param, a
\* sequence of its state updates and of the two registry calls it can make
useEffect(param, r) ==
    IF param = <<>>
    THEN \* lines 16-19
         /\ page' = [page EXCEPT !.mounted = "mounted", !.shortCode = param,
                                 !.status = "not-found", !.timer = <<>>,
                                 !.runs = @ + 1]
         /\ UNCHANGED <<urls, storage, saveErrors, hits, logged, ret, now>>
    ELSE LET e == getUrlByShortCode(urls, now, param[1]) IN
         IF e.found = 0
         THEN \* lines 26-38: recordClickAndRedirect returned null, getAllUrls follows
              LET allUrls == SortByCreatedAtDesc(RefreshExpired(e.urls, now))
                  k == FindByCode(allUrls, param[1])
                  existingUrl == IF k = 0 THEN <<>> ELSE <<allUrls[k]>>
              IN /\ urls' = RefreshExpired(e.urls, now)
                 /\ Persist(urls', TRUE, TRUE)
                 /\ logged' = <<>>
                 /\ ret' = Ret("list", NoRequest, <<>>, NoId, "ok", allUrls, "")
                 /\ page' = [page EXCEPT
                        !.mounted = "mounted", !.shortCode = param,
                        !.status = IF existingUrl # <<>> /\ existingUrl[1].isExpired
                                   THEN "expired" ELSE "not-found",
                        !.timer = <<>>, !.runs = @ + 1]
                 /\ UNCHANGED <<now, hits>>
         ELSE \* lines 24, 40-54
              /\ recordClickAndRedirect(param[1], <<"direct">>, r, TRUE)
              /\ page' = [page EXCEPT
                     !.mounted = "mounted", !.shortCode = param,
                     !.originalUrl = ret'.url, !.status = "redirecting",
                     !.timer = <<[shortCode |-> param[1], redirectUrl |-> ret'.url]>>,
                     !.fired = 0, !.runs = @ + 1]

\* the first render (useState initial values) with the effect after it
Mount ==
    /\ page.mounted = "unmounted"
    /\ \E param \in RouteParams, r \in IdRands : useEffect(param, r)

\* the route parameter changes: cleanup of line 56, then the effect again
Reroute ==
    /\ page.mounted = "mounted"
    /\ page.runs <= MaxReroutes
    /\ \E param \in RouteParams \ {page.shortCode}, r \in IdRands : useEffect(param, r)

\* lines 46-53: the updater passed to setCountdown
Countdown(prev, timer) ==
    IF prev <= 1
    THEN [countdown |-> 0, timer |-> <<>>, href |-> <<timer[1].redirectUrl>>, autos |-> 1]
    ELSE [countdown |-> prev - 1, timer |-> timer, href |-> <<>>, autos |-> 0]

\* line 45: the interval fires
TimerFire ==
    /\ page.mounted = "mounted"
    /\ page.timer # <<>>
    /\ page.ticks < MaxTimerTicks
    /\ LET c == Countdown(page.countdown, page.timer) IN
       page' = [page EXCEPT !.countdown = c.countdown, !.timer = c.timer,
                            !.href = IF c.href = <<>> THEN @ ELSE c.href,
                            !.autos = @ + c.autos, !.ticks = @ + 1, !.fired = @ + 1]
    /\ UNCHANGED <<urls, storage, saveErrors, hits, logged, ret, now>>

\* lines 59-63, the button of the 'redirecting' view
handleManualRedirect ==
    /\ page.mounted = "mounted"
    /\ page.status = "redirecting"
    /\ page.href = <<>>
    /\ page' = [page EXCEPT !.href = IF page.originalUrl # "" THEN <<page.originalUrl>> ELSE @]
    /\ UNCHANGED <<urls, storage, saveErrors, hits, logged, ret, now>>

\* line 56: the cleanup when the component goes away
Unmount ==
    /\ page.mounted = "mounted"
    /\ page' = [page EXCEPT !.mounted = "left", !.timer = <<>>]
    /\ UNCHANGED <<urls, storage, saveErrors, hits, logged, ret, now>>

RedirectRequests ==
    {Req(GoodUrl, <<>>, <<>>), Req(GoodUrl, <<-1>>, << <<>> >>), Req(GoodUrl, <<1>>, <<Promo>>)}
Elsewhere == page.mounted = "unmounted"

NextRedirect ==
    \/ Elsewhere /\ Tick /\ UNCHANGED <<freed, gen, pending, page, shortener, logs>>
    \/ /\ Elsewhere
       /\ \E req \in RedirectRequests, r \in IdRands : createShortenedUrl(req, r, TRUE)
       /\ UNCHANGED <<freed, gen, pending, page, shortener, logs>>
    \/ Elsewhere /\ Delete({TRUE}) /\ UNCHANGED <<freed, gen, pending, page, shortener, logs>>
    \/ Mount /\ UNCHANGED <<freed, gen, pending, shortener, logs>>
    \/ Reroute /\ UNCHANGED <<freed, gen, pending, shortener, logs>>
    \/ TimerFire /\ UNCHANGED <<freed, gen, pending, shortener, logs>>
    \/ handleManualRedirect /\ UNCHANGED <<freed, gen, pending, shortener, logs>>
    \/ Unmount /\ UNCHANGED <<freed, gen, pending, shortener, logs>>

SpecRedirect == Init /\ [][NextRedirect]_vars

\* ----------------------------------------------------------- UrlShortener
\* src/unnamed/part_003.  Every handler is one step: it reads the forms,
\* errors and isLoading of the render it was created in, and of several
\* set calls on one hook in a handler the last one decides the next state.
FormData(originalUrl, validityMinutes, customShortCode) ==
    [originalUrl |-> originalUrl, validityMinutes |-> validityMinutes,
     customShortCode |-> customShortCode]
\* lines 16-18: the form a new row starts with
EmptyForm == FormData("", "30", <<>>)

\* what the user types: a URL, minutes, a custom code (<<>> is the empty string)
UrlTyped == {"", GoodUrl, BadUrl}
MinutesTyped == {"", "30"}
CodeTyped == {<<>>, Promo, <<"a", "-">>}
Fields == {"originalUrl", "validityMinutes", "customShortCode"}
Typed(field) ==
    IF field = "originalUrl" THEN UrlTyped
    ELSE IF field = "validityMinutes" THEN MinutesTyped ELSE CodeTyped

\* parseInt of the minutes typed
ParseInt(str) == IF str = "30" THEN 30 ELSE 0

\* { ...obj, [index]: value }
Spread(obj, index, value) ==
    [k \in DOMAIN obj \cup {index} |-> IF k = index THEN value ELSE obj[k]]
\* delete obj[index]
Without(obj, index) == [k \in DOMAIN obj \ {index} |-> obj[k]]

\* lines 47-61: the values updateForm passes to setForms and, when the form
\* has errors, to setErrors (errors as it was otherwise)
updateForm(forms, errors, index, field, value) ==
    LET newForms == [forms EXCEPT ![index] =
                        IF field = "originalUrl" THEN [@ EXCEPT !.originalUrl = value]
                        ELSE IF field = "validityMinutes"
                        THEN [@ EXCEPT !.validityMinutes = value]
                        ELSE [@ EXCEPT !.customShortCode = value]]
        rest == SelectSeq(errors[index], LAMBDA e : e # field)
    IN [forms |-> newForms,
        errors |-> IF index \in DOMAIN errors
                   THEN (IF rest = <<>> THEN Without(errors, index)
                         ELSE Spread(errors, index, rest))
                   ELSE errors]

\* line 88: /^[A-Za-z0-9]{1,20}$/
MatchesForm(code) == Len(code) \in 1..20 /\ \A i \in 1..Len(code) : code[i] \in Alnum

\* lines 64-95: the fields validateForm reports, in order
validateForm(formData) ==
    (IF formData.originalUrl = "" \/ ~isValidUrl(formData.originalUrl)
     THEN <<"originalUrl">> ELSE <<>>)
    \o (IF formData.validityMinutes # ""
           /\ (ParseInt(formData.validityMinutes) < 1
               \/ ParseInt(formData.validityMinutes) > 525600)
        THEN <<"validityMinutes">> ELSE <<>>)
    \o (IF formData.customShortCode # <<>> /\ ~MatchesForm(formData.customShortCode)
        THEN <<"customShortCode">> ELSE <<>>)

\* lines 110-114: the request submitForm builds from a form
FormRequest(formData) ==
    Req(formData.originalUrl,
        IF formData.validityMinutes # "" THEN <<ParseInt(formData.validityMinutes)>> ELSE <<>>,
        IF formData.customShortCode # <<>> THEN <<formData.customShortCode>> ELSE <<>>)

\* lines 98-147
submitForm(index, r) ==
    LET formData == shortener.forms[index]
        validationErrors == validateForm(formData)
        first == updateForm(shortener.forms, shortener.errors, index, "originalUrl", "")
        second == updateForm(shortener.forms, shortener.errors, index, "customShortCode", <<>>)
    IN IF validationErrors # <<>>
       THEN /\ shortener' = [shortener EXCEPT
                   !.errors = Spread(@, index, validationErrors),
                   !.submits = @ + 1, !.last = index]
            /\ UNCHANGED <<urls, storage, saveErrors, hits, logged, ret, now>>
       ELSE /\ createShortenedUrl(FormRequest(formData), r, TRUE)
            /\ Len(urls') <= MaxFormUrls
            /\ shortener' =
                 IF ret'.status = "ok"
                 THEN [shortener EXCEPT
                         !.results = Append(@, ret'.id),
                         !.forms = second.forms,
                         !.errors = second.errors,
                         !.isLoading = Spread(@, index, FALSE),
                         !.submits = @ + 1, !.last = index]
                 ELSE [shortener EXCEPT
                         !.errors = Spread(@, index, <<"general">>),
                         !.isLoading = Spread(@, index, FALSE),
                         !.submits = @ + 1, !.last = index]

\* the component is rendered for the first time
ShortenerMount ==
    /\ ~shortener.mounted
    /\ shortener' = Shortener(TRUE, <<EmptyForm>>, <<>>, <<>>, <<>>)
    /\ UNCHANGED <<urls, storage, saveErrors, hits, logged, ret, now>>

\* lines 24-29
addForm ==
    /\ shortener.mounted
    /\ Len(shortener.forms) < MaxForms
    /\ shortener' = [shortener EXCEPT
          !.forms = IF Len(@) < FormLimit THEN Append(@, EmptyForm) ELSE @]
    /\ UNCHANGED <<urls, storage, saveErrors, hits, logged, ret, now>>

\* lines 32-44
removeForm ==
    /\ shortener.mounted
    /\ \E index \in 1..Len(shortener.forms) :
          /\ Len(shortener.forms) > 1
          /\ shortener' = [shortener EXCEPT
                !.forms = [k \in 1..(Len(@) - 1) |-> IF k < index THEN @[k] ELSE @[k + 1]],
                !.errors = Without(@, index)]
    /\ UNCHANGED <<urls, storage, saveErrors, hits, logged, ret, now>>

\* the user types into a field: onChange calls updateForm
Type ==
    /\ shortener.mounted
    /\ \E index \in 1..Len(shortener.forms), field \in Fields :
          \E value \in Typed(field) :
             LET u == updateForm(shortener.forms, shortener.errors, index, field, value)
             IN /\ u.forms # shortener.forms
                /\ shortener' = [shortener EXCEPT !.forms = u.forms, !.errors = u.errors]
    /\ UNCHANGED <<urls, storage, saveErrors, hits, logged, ret, now>>

Submit ==
    /\ shortener.mounted
    /\ shortener.submits < MaxSubmits
    /\ \E index \in 1..Len(shortener.forms), r \in IdRands : submitForm(index, r)

NextForms ==
    \/ ShortenerMount /\ UNCHANGED <<freed, gen, pending, page, logs>>
    \/ addForm /\ UNCHANGED <<freed, gen, pending, page, logs>>
    \/ removeForm /\ UNCHANGED <<freed, gen, pending, page, logs>>
    \/ Type /\ UNCHANGED <<freed, gen, pending, page, logs>>
    \/ Submit /\ UNCHANGED <<freed, gen, pending, page, logs>>

SpecForms == Init /\ [][NextForms]_vars

\* ------------------------------------------------------------------ Logger
\* src/src/services/logger.ts.  An entry carries its level and, for its
\* timestamp, the number of log calls made since the list was last empty,
\* which orders the entries of a list as their times of logging do.
LogLevel == {"INFO", "WARN", "ERROR", "DEBUG"}
LogEntry(timestamp, level) == [timestamp |-> timestamp, level |-> level]
Stamp(l) == IF l = <<>> THEN 1 ELSE l[1].timestamp + 1
\* the level of the n-th call: the callers take the four levels in turn
LevelOf(n) == IF n % 4 = 0 THEN "ERROR" ELSE IF n % 4 = 1 THEN "INFO"
              ELSE IF n % 4 = 2 THEN "WARN" ELSE "DEBUG"

\* slice(0, end)
Slice(l, end) == SubSeq(l, 1, IF Len(l) < end THEN Len(l) ELSE end)

\* mutant: the entry is appended (push) and the list cut at the front
log_Push(l, entry) ==
    LET pushed == Append(l, entry)
    IN IF Len(pushed) > maxLogs THEN Slice(pushed, maxLogs) ELSE pushed

\* lines 21-35: unshift, then keep the first maxLogs
log(l, entry) ==
    LET unshifted == <<entry>> \o l
    IN IF Len(unshifted) > maxLogs THEN Slice(unshifted, maxLogs) ELSE unshifted

\* lines 56-70: info, warn, error, debug
Log ==
    /\ Stamp(logs) <= MaxLogCalls
    /\ logs' = log(logs, LogEntry(Stamp(logs), LevelOf(Stamp(logs))))
    /\ UNCHANGED <<urls, storage, now, ret, saveErrors, hits, logged, freed, gen, pending,
                   page, shortener>>

\* lines 75-77
clearLogs ==
    /\ logs' = <<>>
    /\ UNCHANGED <<urls, storage, now, ret, saveErrors, hits, logged, freed, gen, pending,
                   page, shortener>>

NextLogger == Log \/ clearLogs

SpecLogger == Init /\ [][NextLogger]_vars

\* the codes of the mappings a deleteUrl(id) step removes
DeletedCodes(u, id) == { u[i].shortCode : i \in { j \in 1..Len(u) : u[j].id = id } }

\* the registry over a store that accepts every write, with the codes' history
NextHistory ==
    \/ Tick /\ UNCHANGED <<freed, gen, pending, page, shortener, logs>>
    \/ Create({TRUE}) /\ UNCHANGED <<freed, gen, pending, page, shortener, logs>>
    \/ GetByCode({TRUE}) /\ UNCHANGED <<freed, gen, pending, page, shortener, logs>>
    \/ RecordClick({TRUE}) /\ UNCHANGED <<freed, gen, pending, page, shortener, logs>>
    \/ GetAll({TRUE}) /\ UNCHANGED <<freed, gen, pending, page, shortener, logs>>
    \/ Delete({TRUE}) /\ freed' = freed \cup DeletedCodes(urls, ret'.id) /\ UNCHANGED <<gen, pending, page, shortener, logs>>
    \/ Clear({TRUE}) /\ UNCHANGED <<freed, gen, pending, page, shortener, logs>>

SpecHistory == Init /\ [][NextHistory]_vars

\* ------------------------------------------------------------- properties
\* a step that is one call of a public method; the call's arguments are the
\* ones it leaves in ret
CreateCall ==
    /\ ret'.op = "create"
    /\ \E r \in IdRands, ok \in BOOLEAN : createShortenedUrl(ret'.req, r, ok)
LookupCall ==
    /\ ret'.op = "lookup"
    /\ \E ok \in BOOLEAN : Lookup(ret'.code, ok)
RecordCall ==
    /\ ret'.op = "record"
    /\ \E src \in SourceInputs, r \in IdRands, ok \in BOOLEAN :
           recordClickAndRedirect(ret'.code, src, r, ok)
ListCall ==
    /\ ret'.op = "list"
    /\ \E ok \in BOOLEAN : getAllUrls(ok)
DeleteCall ==
    /\ ret'.op = "delete"
    /\ \E ok \in BOOLEAN : deleteUrl(ret'.id, ok)
ClearCall ==
    /\ ret'.op = "clear"
    /\ \E ok \in BOOLEAN : clearAllData(ok)

Holders(u, c) == { i \in 1..Len(u) : u[i].shortCode = c }
LiveAt(url, t) == t <= url.expiresAt
HasCustom(req) == Len(req.customShortCode) = 1

\* ^[A-Za-z0-9]{1,20}$
MatchesPattern(c) == Len(c) \in 1..20 /\ \A i \in 1..Len(c) : c[i] \in Alnum

\* C1: no two stored mappings (live or expired) have the same shortCode.
C1_UniqueShortCodes ==
    \A i, j \in 1..Len(urls) : i # j => urls[i].shortCode # urls[j].shortCode

\* C2 as stated: a create whose custom code is held by a stored mapping always
\* fails with ShortCodeTaken and stores nothing.
C2_TakenAlwaysShortCodeTaken ==
    [][LET req == ret'.req IN
         (CreateCall /\ HasCustom(req) /\ Holders(urls, req.customShortCode[1]) # {})
         => (ret'.status = "ShortCodeTaken" /\ urls' = urls)]_vars

\* C2 amended: a create with a valid URL whose custom code is held by a stored
\* mapping, live or expired, fails with ShortCodeTaken and stores nothing (no
\* mapping is added and none gets an auto-generated code).
C2_ValidUrlTakenFails ==
    [][LET req == ret'.req IN
         (/\ CreateCall
          /\ req.originalUrl = GoodUrl
          /\ HasCustom(req)
          /\ Holders(urls, req.customShortCode[1]) # {})
         => (ret'.status = "ShortCodeTaken" /\ urls' = urls)]_vars

C2_Witness ==
    /\ ret.op = "create"
    /\ ret.status = "ShortCodeTaken"
    /\ \E i \in Holders(urls, ret.req.customShortCode[1]) : ~LiveAt(urls[i], now)

\* C3: a create with a valid URL and a custom code that matches the pattern and
\* is held by no stored mapping succeeds, and the returned mapping, which is the
\* one stored, has exactly the requested shortCode.
C3_CustomCodeVerbatim ==
    [][LET req == ret'.req IN
         (/\ CreateCall
          /\ req.originalUrl = GoodUrl
          /\ HasCustom(req)
          /\ MatchesPattern(req.customShortCode[1])
          /\ Holders(urls, req.customShortCode[1]) = {})
         => (/\ ret'.status = "ok"
             /\ ret'.out[1].shortCode = req.customShortCode[1]
             /\ \E i \in 1..Len(urls') : urls'[i] = ret'.out[1])]_vars

C3_Witness ==
    /\ ret.op = "create"
    /\ ret.status = "ok"
    /\ HasCustom(ret.req)
    /\ ret.out[1].shortCode = Promo
    /\ Len(urls) > 1

SameClicks(u, v) ==
    /\ Len(u) = Len(v)
    /\ \A i \in 1..Len(u) :
          /\ v[i].id = u[i].id
          /\ v[i].clicks = u[i].clicks
          /\ v[i].totalClicks = u[i].totalClicks

\* C4: recordAccessAndResolve on a code that no stored mapping holds, or whose
\* every holder has now > expiresAt, returns NotFound and leaves the clicks and
\* totalClicks of every stored mapping unchanged.
C4_NoLiveHolderNotFound ==
    [][(RecordCall /\ \A i \in Holders(urls, ret'.code) : now > urls[i].expiresAt)
       => (ret'.status = "NotFound" /\ SameClicks(urls, urls'))]_vars

C4_Witness ==
    /\ ret.op = "record"
    /\ ret.status = "NotFound"
    /\ \E i \in Holders(urls, ret.code) : now > urls[i].expiresAt /\ Len(urls[i].clicks) > 0

Chronological(clicks) ==
    \A k \in 1..(Len(clicks) - 1) : clicks[k].timestamp <= clicks[k + 1].timestamp

C6_TotalIsLength ==
    \A i \in 1..Len(urls) : urls[i].totalClicks = Len(urls[i].clicks)

C6_Witness == \E i \in 1..Len(urls) : Len(urls[i].clicks) = 2 /\ Len(urls) > 1

FlagMatchesClock(url, t) == url.isExpired <=> t > url.expiresAt

\* C7: every mapping in the sequence listAll returns at time t, and the mapping
\* lookup returns at time t, has isExpired true exactly when t > expiresAt.
C7_ReadFlagMatchesClock ==
    [][/\ ListCall => \A k \in 1..Len(ret'.out) : FlagMatchesClock(ret'.out[k], now)
       /\ (LookupCall /\ ret'.status = "ok") => FlagMatchesClock(ret'.out[1], now)]_vars

C7_Witness ==
    /\ ret.op = "list"
    /\ \E k, l \in 1..Len(ret.out) :
          /\ ret.out[k].isExpired /\ now > ret.out[k].expiresAt
          /\ ~ret.out[l].isExpired /\ now = ret.out[l].expiresAt

\* C8: a successful create with validityMinutes = m stores expiresAt =
\* createdAt + m minutes, for every number m, 0 and negative included, and
\* createdAt + 30 minutes when validityMinutes is absent.
C8_ExpiryExact ==
    (ret.op = "create" /\ ret.status = "ok")
    => LET m == IF ret.req.validityMinutes = <<>> THEN 30 ELSE ret.req.validityMinutes[1]
       IN ret.out[1].expiresAt = ret.out[1].createdAt + m * 60 * 1000

\* C9: lookup(code) at time t returns a stored mapping holding the code with
\* t <= expiresAt exactly when some stored mapping holds the code with
\* t <= expiresAt, and NotFound otherwise.
C9_LookupIffLive ==
    [][LookupCall =>
         ((\E i \in Holders(urls, ret'.code) : LiveAt(urls[i], now))
          <=> (/\ ret'.status = "ok"
               /\ ret'.out[1].shortCode = ret'.code
               /\ LiveAt(ret'.out[1], now)
               /\ \E i \in 1..Len(urls) : urls[i] = ret'.out[1]))]_vars

\* C10: delete(id) with an id not stored returns false and changes neither the
\* registry nor the persisted snapshot; with a stored id it returns true and
\* removes exactly that mapping, every other one staying as it was, in place.
C10_DeleteExactlyOne ==
    [][DeleteCall =>
         IF ret'.id \in Ids(urls)
         THEN /\ ret'.status = "true"
              /\ Ids(urls') = Ids(urls) \ {ret'.id}
              /\ Len(urls') = Len(urls) - 1
              /\ \A i \in 1..Len(urls) :
                    urls[i].id # ret'.id => \E j \in 1..Len(urls') : urls'[j] = urls[i]
         ELSE /\ ret'.status = "false"
              /\ urls' = urls
              /\ storage' = storage]_vars

C10_Witness ==
    /\ ret.op = "delete"
    /\ ret.status = "true"
    /\ Len(urls) = MaxUrls - 1
    /\ Len(storage) = 1 /\ Len(storage[1].entries) = Len(urls)

\* C11: a create with a valid URL that requests as custom code the code of a
\* mapping deleteUrl removed succeeds with that code when no stored mapping
\* holds it, and the same request fails with ShortCodeTaken, storing nothing,
\* while a mapping holding the code is stored and has expired.
C11_DeleteFreesExpiryDoesNot ==
    [][LET req == ret'.req IN
         (CreateCall /\ req.originalUrl = GoodUrl /\ HasCustom(req))
         => LET c == req.customShortCode[1] IN
            /\ (c \in freed /\ Holders(urls, c) = {})
               => (ret'.status = "ok" /\ ret'.out[1].shortCode = c)
            /\ (\E i \in Holders(urls, c) : now > urls[i].expiresAt)
               => (ret'.status = "ShortCodeTaken" /\ urls' = urls)]_vars

C11_Witness ==
    /\ ret.op = "create"
    /\ ret.status = "ok"
    /\ HasCustom(ret.req)
    /\ ret.code = ret.req.customShortCode[1]
    /\ ret.code \in freed
    /\ \E i \in 1..Len(urls) : urls[i].shortCode # ret.code /\ now > urls[i].expiresAt

C13_ClearErasesAll ==
    [][/\ (ClearCall /\ ret'.status = "ok") => (urls' = <<>> /\ storage' = <<>>)
       /\ (ListCall /\ ret.op = "clear") => ret'.out = <<>>]_vars

C13_Witness ==
    /\ ret.op = "clear"
    /\ ret.status = "ok"
    /\ urls = <<>>
    /\ storage = <<>>
    /\ now = MaxTicks * TickMs

CreateErrors == {"InvalidUrl", "InvalidShortCode", "ShortCodeTaken"}

\* C14: a create that fails with InvalidUrl, InvalidShortCode or ShortCodeTaken
\* leaves the stored mappings and the persisted snapshot as they were and
\* attempts no write to the store.
C14_FailedCreateChangesNothing ==
    [][(CreateCall /\ ret'.status \in CreateErrors)
       => (urls' = urls /\ storage' = storage /\ saveErrors' = saveErrors)]_vars

C14_Witness ==
    /\ ret.op = "create"
    /\ ret.status \in CreateErrors
    /\ urls # <<>>
    /\ saveErrors > 0
    /\ storage # <<JsonStringify(Entries(urls))>>

\* C15: a create with a valid URL and a supplied custom code that does not
\* match ^[A-Za-z0-9]{1,20}$, the empty string and the strings longer than 20
\* included, fails with InvalidShortCode and stores no mapping.
C15_MalformedCustomRejected ==
    [][LET req == ret'.req IN
         (/\ CreateCall
          /\ req.originalUrl = GoodUrl
          /\ HasCustom(req)
          /\ ~MatchesPattern(req.customShortCode[1]))
         => (ret'.status = "InvalidShortCode" /\ urls' = urls)]_vars

\* C16: a create with an invalid URL fails with InvalidUrl whatever custom
\* code comes with it, malformed or taken, and a create with a valid URL and a
\* malformed custom code fails with InvalidShortCode.
C16_FirstFailingCheck ==
    [][LET req == ret'.req IN
         CreateCall
         => /\ req.originalUrl = BadUrl => ret'.status = "InvalidUrl"
            /\ (/\ req.originalUrl = GoodUrl
                /\ HasCustom(req)
                /\ ~MatchesPattern(req.customShortCode[1]))
               => ret'.status = "InvalidShortCode"]_vars

\* C17: listAll returns every stored mapping, live or expired, each exactly
\* once and nothing else, ordered by createdAt non-increasing.
C17_ListAllSortedComplete ==
    [][ListCall =>
         LET out == ret'.out IN
         /\ Len(out) = Len(urls')
         /\ Ids(urls') = Ids(urls)
         /\ \A i \in 1..Len(urls') : \E k \in 1..Len(out) : out[k] = urls'[i]
         /\ \A k, l \in 1..Len(out) : k # l => out[k].id # out[l].id
         /\ \A k \in 1..(Len(out) - 1) : out[k].createdAt >= out[k + 1].createdAt]_vars

C17_Witness ==
    /\ ret.op = "list"
    /\ Len(ret.out) = MaxUrls
    /\ ret.out[1].createdAt > ret.out[2].createdAt
    /\ \E k, l \in 1..Len(ret.out) : ret.out[k].isExpired /\ ~ret.out[l].isExpired
    /\ freed # {}

\* the normal result of the call a step makes, with its change of the Map
ResultKept ==
    LET op == ret'.op IN
    /\ ret'.status # "Threw"
    /\ op = "create" => (ret'.status = "ok" /\ \E i \in 1..Len(urls') : urls'[i] = ret'.out[1])
    /\ op = "record" =>
          \/ /\ ret'.status = "ok"
             /\ \E i \in 1..Len(urls') :
                    urls'[i] = ret'.out[1] /\ Len(urls'[i].clicks) = Len(urls[i].clicks) + 1
          \/ /\ ret'.status = "NotFound"
             /\ \E i \in Holders(urls', ret'.code) : urls'[i].isExpired
    /\ op = "lookup" =>
          /\ ret'.status = "NotFound"
          /\ \E i \in Holders(urls', ret'.code) : urls'[i].isExpired
    /\ op = "list" => (ret'.status = "ok" /\ Len(ret'.out) = Len(urls'))
    /\ op = "delete" => (ret'.status = "true" /\ ret'.id \notin Ids(urls'))
    /\ op = "clear" => (ret'.status = "ok" /\ urls' = <<>>)

\* C18: a step of create, lookup, record, listAll, delete or clear during
\* which the store throws raises nothing to the caller, returns the call's
\* normal result and keeps the call's change of the registry.
C18_StoreFailureNeverRaised ==
    [][saveErrors' > saveErrors => ResultKept]_vars

\* the stored item is the text of an array of [id, ShortenedUrl] pairs
WellFormedSnapshot(st) ==
    /\ st # <<>>
    /\ st[1].kind = "array"
    /\ \A k \in 1..Len(st[1].entries) :
          /\ IsShortenedUrl(st[1].entries[k][2])
          /\ st[1].entries[k][1] = st[1].entries[k][2].id

\* C19: when the snapshot found at startup is absent, unreadable or malformed,
\* the constructor returns normally and the registry holds no mappings.
C19_BadSnapshotStartsEmpty ==
    (ret.op = "init" /\ ~WellFormedSnapshot(storage)) => (ret.status = "ok" /\ urls = <<>>)

\* C20: when the last write to the store did not throw, the persisted snapshot
\* holds exactly the mappings of the registry, in order and field by field
\* (no snapshot or an empty one when the registry is empty): every successful
\* create, record and delete, every expiry-marking lookup and every listAll
\* has rewritten it whole.
C20_SnapshotEqualsRegistry ==
    saveErrors = 0
    => /\ storage = <<>> \/ storage[1].kind = "array"
       /\ Len(storage) <= 1
       /\ loadFromStorage(storage) = urls

C20_Witness ==
    /\ ret.op = "lookup"
    /\ ret.status = "NotFound"
    /\ \E i \in Holders(urls, ret.code) : urls[i].isExpired
    /\ \E i \in 1..Len(urls) : Len(urls[i].clicks) > 0
    /\ saveErrors = 0
    /\ storage # <<>>
    /\ loadFromStorage(storage) = urls

\* C21: a successful create assigns an id that no stored mapping has, so the
\* registry grows by exactly one mapping, every mapping stored before stays in
\* place unchanged, and the new mapping has empty clicks, totalClicks = 0 and
\* isExpired = false.
C21_FreshIdAddsOne ==
    [][(CreateCall /\ ret'.status = "ok")
       => /\ ret'.id \notin Ids(urls)
          /\ Len(urls') = Len(urls) + 1
          /\ SubSeq(urls', 1, Len(urls)) = urls
          /\ urls'[Len(urls')] = ret'.out[1]
          /\ ret'.out[1].clicks = <<>>
          /\ ret'.out[1].totalClicks = 0
          /\ ~ret'.out[1].isExpired]_vars

Operations == {"create", "lookup", "record", "list", "delete", "clear"}

\* C23: every call of create, lookup, recordAccessAndResolve, listAll, delete
\* or clear passes at least one event to the logger, whatever its outcome.
C23_EveryCallLogs ==
    ret.op \in Operations => Len(logged) >= 1

C24_ExpiryPermanent ==
    [][/\ (RecordCall /\ \E i \in Holders(urls, ret'.code) : LiveAt(urls[i], now))
          => ret'.status = "ok"
       /\ ((LookupCall \/ RecordCall) /\ ret'.status = "ok")
          => \A i \in 1..Len(urls) : urls[i].id = ret'.id => ~urls[i].isExpired
       /\ \A i \in 1..Len(urls), j \in 1..Len(urls') :
             urls[i].id = urls'[j].id => urls'[j].expiresAt = urls[i].expiresAt
       /\ now' >= now]_vars

\* C25 as stated: generateUniqueShortCode returns a 6-character code that no
\* stored mapping holds unless 100 successive 6-character draws were all
\* taken, and only then an 8-character code, unchecked; it makes at most 100
\* 6-character draws.
C25_TwoPhaseAtMost100 ==
    gen.pc = "done"
    => /\ \/ /\ Len(gen.shortCode) = 6
             /\ Holders(urls, gen.shortCode) = {}
             /\ gen.collided < 100
          \/ /\ Len(gen.shortCode) = 8
             /\ gen.collided = 100
       /\ gen.six <= 100

\* C25 amended: as stated, with at most 100 6-character draws tested and a
\* 101st drawn and discarded when the 8-character code is drawn.
C25_TwoPhase ==
    gen.pc = "done"
    => /\ \/ /\ Len(gen.shortCode) = 6
             /\ Holders(urls, gen.shortCode) = {}
             /\ gen.collided < 100
             /\ gen.six = gen.collided + 1
          \/ /\ Len(gen.shortCode) = 8
             /\ gen.collided = 100
             /\ gen.six = 101
       /\ [shortCode |-> gen.shortCode, attempts |-> gen.attempts]
             \in generateUniqueShortCode(urls)

C25_Witness ==
    /\ gen.pc = "done"
    /\ Len(gen.shortCode) = 8
    /\ Holders(urls, gen.shortCode) # {}
    /\ gen.six = 101

\* C26: generateUniqueShortCode returns a code on every registry and for
\* every sequence of draws, also when every 6-character draw is taken.
C26_Terminates == <>(gen.pc = "done" /\ Len(gen.shortCode) \in {6, 8})

C26_Witness ==
    /\ gen.pc = "done"
    /\ gen.attempts = maxAttempts + 1
    /\ \A c \in Draws(DefaultCodeLength) : Holders(urls, c) # {}
    /\ Holders(urls, gen.shortCode) = {}

IsPrefix(p, q) == Len(p) <= Len(q) /\ SubSeq(q, 1, Len(p)) = p

\* C27: a step leaves the id, originalUrl, shortCode, customCode, createdAt and
\* expiresAt of every mapping that stays stored as they were; clicks and
\* totalClicks change only in recordAccessAndResolve, isExpired only in lookup
\* (also the one recordAccessAndResolve makes) and listAll.
C27_FrameFields ==
    [][\A i \in 1..Len(urls), j \in 1..Len(urls') :
         urls[i].id = urls'[j].id
         => /\ urls'[j].originalUrl = urls[i].originalUrl
            /\ urls'[j].shortCode = urls[i].shortCode
            /\ urls'[j].customCode = urls[i].customCode
            /\ urls'[j].createdAt = urls[i].createdAt
            /\ urls'[j].expiresAt = urls[i].expiresAt
            /\ (urls'[j].clicks # urls[i].clicks \/ urls'[j].totalClicks # urls[i].totalClicks)
               => ret'.op = "record"
            /\ urls'[j].isExpired # urls[i].isExpired
               => ret'.op \in {"lookup", "record", "list"}]_vars

\* C28: in every step, for every mapping stored before and after it, the
\* clicks before are a prefix of the clicks after and totalClicks does not
\* decrease.
C28_ClicksAppendOnly ==
    [][\A i \in 1..Len(urls), j \in 1..Len(urls') :
         urls[i].id = urls'[j].id
         => /\ IsPrefix(urls[i].clicks, urls'[j].clicks)
            /\ urls'[j].totalClicks >= urls[i].totalClicks]_vars

\* C29: the clicks of a mapping that stays stored change only in a successful
\* recordAccessAndResolve, which appends exactly one click to the mapping it
\* returns, a holder of the given code, and to no other.
C29_OnlyRecordGrowsClicks ==
    [][/\ \A i \in 1..Len(urls), j \in 1..Len(urls') :
             (urls[i].id = urls'[j].id /\ urls'[j].clicks # urls[i].clicks)
             => /\ RecordCall
                /\ ret'.status = "ok"
                /\ urls'[j].id = ret'.id
                /\ urls[i].shortCode = ret'.code
                /\ Len(urls'[j].clicks) = Len(urls[i].clicks) + 1
       /\ (RecordCall /\ ret'.status = "ok")
          => \E i \in 1..Len(urls) :
                /\ urls[i].id = ret'.id
                /\ urls'[i].id = ret'.id
                /\ Len(urls'[i].clicks) = Len(urls[i].clicks) + 1]_vars

\* C30: the set of stored ids changes only in create, which adds one id,
\* delete, which removes the given id, and clear, which removes all; a clock
\* step, lookup, recordAccessAndResolve and listAll leave it as it is, and an
\* expired mapping stays stored with its code through every step but delete
\* and clear.
C30_IdsChangeOnlyByCreateDeleteClear ==
    [][/\ Ids(urls') # Ids(urls) => ret'.op \in {"create", "delete", "clear"}
       /\ (CreateCall /\ ret'.status = "ok")
          => (ret'.id \notin Ids(urls) /\ Ids(urls') = Ids(urls) \cup {ret'.id})
       /\ (CreateCall /\ ret'.status # "ok") => Ids(urls') = Ids(urls)
       /\ DeleteCall => Ids(urls') = Ids(urls) \ {ret'.id}
       /\ (ClearCall /\ ret'.status = "ok") => Ids(urls') = {}
       /\ ret'.op \notin {"delete", "clear"}
          => \A i \in 1..Len(urls) :
                now > urls[i].expiresAt
                => \E j \in 1..Len(urls') :
                      urls'[j].id = urls[i].id /\ urls'[j].shortCode = urls[i].shortCode]_vars

\* the mapping a lookup of code c matches: the first stored holder, 0 if none
Matched(u, c) ==
    IF Holders(u, c) = {} THEN 0
    ELSE CHOOSE i \in Holders(u, c) : \A j \in Holders(u, c) : i <= j

\* C31: a lookup whose matched mapping is past its expiresAt only sets that
\* mapping's isExpired and then attempts one write of the whole snapshot; a
\* lookup that matches a live mapping or none leaves the registry and the
\* store as they are and attempts no write.
C31_LookupFrame ==
    [][LookupCall =>
         LET i == Matched(urls, ret'.code) IN
         IF i # 0 /\ now > urls[i].expiresAt
         THEN /\ urls' = [urls EXCEPT ![i].isExpired = TRUE]
              /\ \/ saveErrors' = 0 /\ storage' = <<Text("array", Entries(urls'))>>
                 \/ saveErrors' = saveErrors + 1 /\ storage' = storage
         ELSE /\ urls' = urls
              /\ storage' = storage
              /\ saveErrors' = saveErrors]_vars

C31_Witness ==
    /\ ret.op = "lookup"
    /\ ret.status = "NotFound"
    /\ Matched(urls, ret.code) # 0
    /\ now > urls[Matched(urls, ret.code)].expiresAt
    /\ urls[Matched(urls, ret.code)].isExpired
    /\ \E j \in 1..Len(urls) : ~urls[j].isExpired /\ now > urls[j].expiresAt
    /\ saveErrors = 0
    /\ storage = <<Text("array", Entries(urls))>>

C33_RecoversOnNextWrite ==
    (pending > 0 /\ saveErrors = 0)
    => /\ Len(storage) <= 1
       /\ loadFromStorage(storage) = urls

C33_Witness ==
    /\ pending = MaxFailedWrites
    /\ saveErrors = 0
    /\ ret.op = "list"
    /\ Len(urls) = 2
    /\ \E i \in 1..Len(urls) : Len(urls[i].clicks) > 0
    /\ \E i \in 1..Len(urls) : urls[i].isExpired
    /\ loadFromStorage(storage) = urls

\* a step that runs RedirectHandler's effect
EffectRun == page'.runs = page.runs + 1

\* C34: a run of RedirectHandler's effect records at most one click and sets
\* the status to 'redirecting' exactly when a live mapping holds the route's
\* code, to 'expired' exactly when stored mappings hold it and none is live,
\* and to 'not-found' exactly when no stored mapping holds it or the route has
\* no code; with 'expired' and 'not-found' no click is recorded.
C34_StatusByHolder ==
    [][EffectRun =>
         LET c == page'.shortCode
             H == IF c = <<>> THEN {} ELSE Holders(urls, c[1])
             live == \E i \in H : LiveAt(urls[i], now)
         IN /\ Len(urls') = Len(urls)
            /\ TotalClicks(urls') <= TotalClicks(urls) + 1
            /\ page'.status = "redirecting" <=> live
            /\ page'.status = "expired" <=> (H # {} /\ ~live)
            /\ page'.status = "not-found" <=> H = {}
            /\ page'.status # "redirecting"
               => \A i \in 1..Len(urls) : urls'[i].clicks = urls[i].clicks]_vars

\* a step in which RedirectHandler's interval fires
TimerRun == page'.ticks = page.ticks + 1

\* C35: when the effect sets 'redirecting' the countdown is 3; every firing
\* of the interval lowers it by one and it stays within 0..3; the third
\* firing, and no other, assigns the mapping's originalUrl to
\* window.location.href, at most once; an unmount clears the interval, a
\* change of the route's code leaves no interval of the old code, and neither
\* assigns window.location.href.
C35_CountdownFromThree ==
    [][  /\ page'.countdown \in 0..3
         /\ (EffectRun /\ page'.status = "redirecting") => page'.countdown = 3
         /\ TimerRun => page'.countdown = page.countdown - 1
         /\ page'.autos # page.autos
            => /\ page.autos = 0
               /\ page'.fired = 3
               /\ page'.href = <<page.originalUrl>>
         /\ (TimerRun /\ page'.fired = 3) => page'.autos = 1
         /\ (EffectRun \/ page'.mounted = "left")
            => /\ page'.autos = page.autos
               /\ page'.mounted = "left" => page'.timer = <<>>
               /\ page'.timer # <<>> => page'.timer[1].shortCode = page'.shortCode[1]]_vars

\* a step in which submitForm created a mapping
SubmitCreated ==
    /\ shortener'.submits = shortener.submits + 1
    /\ Len(shortener'.results) = Len(shortener.results) + 1

\* C36: after a submitForm(index) that created a mapping, the form at index
\* has an empty originalUrl and an empty customShortCode and its
\* validityMinutes as before, and every other form is as before.
C36_SubmitClearsForm ==
    [][SubmitCreated =>
         LET index == shortener'.last IN
         /\ Len(shortener'.forms) = Len(shortener.forms)
         /\ shortener'.forms[index].originalUrl = ""
         /\ shortener'.forms[index].customShortCode = <<>>
         /\ shortener'.forms[index].validityMinutes = shortener.forms[index].validityMinutes
         /\ \A k \in 1..Len(shortener.forms) :
               k # index => shortener'.forms[k] = shortener.forms[k]]_vars

\* a step that is a log call
LogCall == logs' # <<>> /\ logs' # logs

\* C37: the logger's list never holds more than 1000 entries and is ordered
\* newest first; a log call puts its entry at index 0 in front of the earlier
\* entries in their order, and on a full list drops exactly the oldest, the
\* last one.
C37_LogsBounded ==
    [][/\ Len(logs') <= maxLogs
       /\ \A i \in 1..(Len(logs') - 1) : logs'[i].timestamp > logs'[i + 1].timestamp
       /\ LogCall
          => /\ logs'[1].timestamp = Stamp(logs)
             /\ Len(logs') = IF Len(logs) < maxLogs THEN Len(logs) + 1 ELSE maxLogs
             /\ \A i \in 2..Len(logs') : logs'[i] = logs[i - 1]]_vars

C37_Witness ==
    /\ Len(logs) = maxLogs
    /\ logs[1].timestamp = MaxLogCalls
    /\ logs[maxLogs].timestamp = MaxLogCalls - maxLogs + 1
====
